---- MODULE Spec2Model ----
(***************************************************************************)
(* HygieneLINK demand-forecasting core: SarimaxForecastingService           *)
(* (train_sarimax_model, generate_forecast) over a Redis TTL cache and the  *)
(* consumption-history table, and InventoryOptimizationService.             *)
(*                                                                         *)
(* Floats of the source are integers here: quantities (consumption, stock)  *)
(* in thousandths of a unit, factors and percentages in hundredths (1.96 is *)
(* 196, an accuracy of 100.0 is 10000).  Time is in seconds.                *)
(* statsmodels / sklearn / Redis are outside the repository: every outcome  *)
(* such a call can have (a value, an exception) is a choice of the          *)
(* environment, drawn where the call is made.                               *)
(***************************************************************************)
EXTENDS Integers, Sequences, FiniteSets, TLC

VARIABLES
    now,      \* wall clock, seconds
    cache,    \* Redis: key -> [val, exp]
    hist,     \* consumption_data table: <<product, facility>> -> dataset id
    last,     \* the call that has just returned (cleared by environment steps)
    prior,    \* per key, where calls are tracked: the latest value returned
    inflight  \* per worker, the call it is in the middle of, step by step

vars == <<now, cache, hist, last, prior, inflight>>

----------------------------------------------------------------------------
(* Program constants *)

\* a descriptor TTL of two hours, for comparison
CacheTtlLong == 2 * 3600
CacheTtl == 3600
ForecastTtl == 1800
\* a training threshold of ten rows, for comparison
MinTrainRowsLow == 2 * 5
MinTrainRows == 30
MinForecastRecords == 30
ConfidenceLevel == 95
Z95 == 196

(* Bounds of the model *)

MaxTicks == 3

TickSeconds == (2 * ForecastTtl) \div 3

Products == {"p1"}
Facilities == {"f1"}
Pairs == Products \X Facilities
Horizons == {1, 2}

\* lead_time_days of a reorder-point calculation (7 is the default)
LeadTimes == {1, 2}
DefaultLeadTime == 7
\* the same with no lead time at all
LeadTimesFromZero == {0} \cup LeadTimes
AllLeadTimes == LeadTimesFromZero \cup {DefaultLeadTime}
AllHorizons == Horizons \cup {2 * L : L \in AllLeadTimes}

\* datetime.now().date() as a day number on the axis of the record dates;
\* the clock starts one step before midnight of day 45
SecondsPerDay == 24 * 3600
StartOfClock == SecondsPerDay - TickSeconds
Today == 45 + ((StartOfClock + now) \div SecondsPerDay)

----------------------------------------------------------------------------
(* Consumption records and the history table *)

Rec(d, q) ==
    [consumption_date |-> d, quantity_consumed |-> q,
     employee_count |-> 5, special_events |-> FALSE]

Daily(n) == [i \in 1..n |-> Rec(i, 10)]

\* The record collections the history table moves through:
\*   0 no record; 1 ten consecutive days; 2 the same plus one record on day 40
\*   (11 records, 40 calendar days); 3 thirty records on ten days (three a
\*   day); 4 thirty consecutive days; 5 thirty-one consecutive days; 6 the
\*   thirty days plus one record on day 32 (32 calendar days, day 31 empty).
Dataset(id) ==
    CASE id = 0 -> << >>
      [] id = 1 -> Daily(10)
      [] id = 2 -> Daily(10) \o << Rec(40, 10) >>
      [] id = 3 -> [i \in 1..30 |-> Rec(((i - 1) \div 3) + 1, 10)]
      [] id = 4 -> Daily(30)
      [] id = 5 -> Daily(31)
      [] id = 6 -> Daily(30) \o << Rec(32, 10) >>

HistIds == 0..6

RECURSIVE SumSeq(_)
SumSeq(s) == IF s = << >> THEN 0 ELSE Head(s) + SumSeq(Tail(s))

CountOn(records, d) ==
    SumSeq([i \in 1..Len(records) |-> IF records[i].consumption_date = d THEN 1 ELSE 0])

DatesOf(records) == {records[i].consumption_date : i \in 1..Len(records)}

\* Records are immutable once stored: the table only grows.
Extends ==
    [a \in HistIds, b \in HistIds |->
        \A d \in DatesOf(Dataset(a)) : CountOn(Dataset(a), d) <= CountOn(Dataset(b), d)]

SetMin(S) == CHOOSE x \in S : \A y \in S : x <= y
SetMax(S) == CHOOSE x \in S : \A y \in S : x >= y

\* the same aggregating the quantity of a day by its mean, for comparison
PrepareWithMeanQuantity(records) ==
    LET lo == SetMin(DatesOf(records))
        hi == SetMax(DatesOf(records))
    IN  [i \in 1..(hi - lo + 1) |->
            LET d == lo + i - 1
                On(k) == records[k].consumption_date = d
                Over(F(_)) == SumSeq([k \in 1..Len(records) |-> IF On(k) THEN F(records[k]) ELSE 0])
                Qty(r) == r.quantity_consumed
                Emp(r) == r.employee_count
                Evt(r) == IF r.special_events THEN 1 ELSE 0
                n == CountOn(records, d)
            IN  [date |-> d,
                 quantity |-> IF n = 0 THEN 0 ELSE Over(Qty) \div n,
                 employee_count |-> IF n = 0 THEN 0 ELSE Over(Emp) \div n,
                 special_events |-> IF Over(Evt) > 0 THEN 1 ELSE 0]]

\* prepare_time_series_data: one row per calendar day from the first to the
\* last record date; quantity summed, special_events max, absent days 0.
PrepareTimeSeriesData(records) ==
    LET lo == SetMin(DatesOf(records))
        hi == SetMax(DatesOf(records))
    IN  [i \in 1..(hi - lo + 1) |->
            LET d == lo + i - 1
                On(k) == records[k].consumption_date = d
                Over(F(_)) == SumSeq([k \in 1..Len(records) |-> IF On(k) THEN F(records[k]) ELSE 0])
                Qty(r) == r.quantity_consumed
                Emp(r) == r.employee_count
                Evt(r) == IF r.special_events THEN 1 ELSE 0
                n == CountOn(records, d)
            IN  [date |-> d,
                 quantity |-> Over(Qty),
                 employee_count |-> IF n = 0 THEN 0 ELSE Over(Emp) \div n,
                 special_events |-> IF Over(Evt) > 0 THEN 1 ELSE 0]]

\* pd.DataFrame([]) has no 'date' column: df['date'] raises KeyError
PrepareRaises(records) == records = << >>

\* len(df) of the resampled frame, per dataset (computed once)
ResampledRows ==
    [id \in HistIds |->
        IF PrepareRaises(Dataset(id)) THEN 0
        ELSE Len(PrepareTimeSeriesData(Dataset(id)))]

\* employee_mean = df['employee_count'].mean() and the square of employee_std
\* = df['employee_count'].std() (the sample deviation), in thousandths, of the
\* daily frame of a dataset
EmployeeNorm ==
    [id \in HistIds |->
        IF PrepareRaises(Dataset(id)) THEN [mean |-> 0, var |-> 0]
        ELSE LET df == PrepareTimeSeriesData(Dataset(id))
                 n == Len(df)
                 sum == SumSeq([i \in 1..n |-> df[i].employee_count])
                 sumsq == SumSeq([i \in 1..n |-> df[i].employee_count * df[i].employee_count])
             IN  [mean |-> (1000 * sum) \div n,
                  var |-> IF n < 2 THEN 0
                          ELSE (1000 * (n * sumsq - sum * sum)) \div (n * (n - 1))]]

\* len(consumption_data): the number of records
RecordCount == [id \in HistIds |-> Len(Dataset(id))]

----------------------------------------------------------------------------
(* The cache *)

ModelKey(p, f) == "sarimax_model:" \o p \o ":" \o f
ForecastKey(p, f, h) == "forecast:" \o p \o ":" \o f \o ":" \o ToString(h)

ModelKeys == {ModelKey(pr[1], pr[2]) : pr \in Pairs}
ForecastKeys == {ForecastKey(pr[1], pr[2], h) : pr \in Pairs, h \in AllHorizons}
Keys == ModelKeys \cup ForecastKeys

NoVal == [kind |-> "none"]
Garbage == [kind |-> "garbage"]
Absent == [val |-> NoVal, exp |-> 0]

\* Redis GET: an expired key reads as absent
RedisGet(key) ==
    IF cache[key].val # NoVal /\ now < cache[key].exp THEN cache[key].val ELSE NoVal

\* _get_cache_value: a raising GET is swallowed and reads as None
GetCacheValue(key, raises) == IF raises THEN NoVal ELSE RedisGet(key)

\* a write that leaves a live entry alone (SET NX), for comparison
RedisSetIfAbsent(c, key, ttl, val) ==
    IF c[key].val # NoVal THEN c ELSE [c EXCEPT ![key] = [val |-> val, exp |-> now + ttl]]

\* Redis SETEX key ttl value: one command, which replaces the entry whole
RedisSetex(c, key, ttl, val) == [c EXCEPT ![key] = [val |-> val, exp |-> now + ttl]]

\* json.dumps then json.loads: the tuples of best_params come back as lists
\* (a forecast payload holds floats, strings, None and the already decoded
\* model_params, which a round trip leaves as they are)
JsonRoundTrip(v) ==
    IF v.kind = "model" THEN [v EXCEPT !.best_params.seq = "list"] ELSE v

\* json.loads raises JSONDecodeError on an undecodable payload
JsonDecodes(v) == v.kind \in {"model", "forecast"}

----------------------------------------------------------------------------
(* What a call hands back: the error raised ("" when it returned), the value
   returned, where the value came from, the cache it leaves, and what it did
   on the way: the keys whose GET raised, the keys written, whether the
   history was queried, whether a model was fitted, whether the SETEX raised,
   which interval construction was used. *)

NoEffect ==
    [rfail |-> {}, wrote |-> {}, queried |-> FALSE, fitted |-> FALSE, wfail |-> FALSE,
     interval |-> "none"]

\* the keys, among those read, whose GET raised
ReadFaults(keys, raising) == [NoEffect EXCEPT !.rfail = keys \cap raising]

\* raising after dropping every entry, for comparison
RaisedAfterFlush(msg, eff) ==
    [err |-> msg, ret |-> NoVal, src |-> "none", cache |-> [k \in Keys |-> Absent],
     eff |-> eff]

\* raise ValueError(msg): the cache is as it was
Raised(msg, eff) ==
    [err |-> msg, ret |-> NoVal, src |-> "none", cache |-> cache, eff |-> eff]

Returned(v, src, c, eff) ==
    [err |-> "", ret |-> v, src |-> src, cache |-> c, eff |-> eff]

\* try: self.redis.setex(...) except Exception: pass; return value
\* the same with the SETEX outside the try: its exception reaches the caller
CacheOrRaise(v, key, ttl, wraises, eff) ==
    IF wraises
    THEN Raised("RedisError", [eff EXCEPT !.wfail = TRUE])
    ELSE Returned(v, "computed", RedisSetex(cache, key, ttl, JsonRoundTrip(v)),
                  [eff EXCEPT !.wrote = {key}])

CacheAndReturn(v, key, ttl, wraises, eff) ==
    IF wraises
    THEN Returned(v, "computed", cache, [eff EXCEPT !.wfail = TRUE])
    ELSE Returned(v, "computed", RedisSetex(cache, key, ttl, JsonRoundTrip(v)),
                  [eff EXCEPT !.wrote = {key}])

----------------------------------------------------------------------------
(* train_sarimax_model *)

ParamCombinations ==
    << [order |-> <<1, 1, 1>>, seasonal_order |-> <<1, 1, 1, 7>>],
       [order |-> <<1, 1, 2>>, seasonal_order |-> <<1, 1, 1, 7>>],
       [order |-> <<2, 1, 1>>, seasonal_order |-> <<1, 1, 1, 7>>],
       [order |-> <<1, 1, 1>>, seasonal_order |-> <<0, 1, 1, 7>> ] >>

Candidates == 1..Len(ParamCombinations)

\* float('inf'): above every AIC a fit reports
Inf == 1000000

AicValues == {10, 20}

\* SARIMAX(...).fit(...) on one candidate: raises, or returns a fitted model
\* whose aic is a number or is not comparable (NaN, attribute missing)
FitRaises == [raises |-> TRUE, usable |-> FALSE, aic |-> 0]
FitNoAic == [raises |-> FALSE, usable |-> FALSE, aic |-> 0]
FitAic(a) == [raises |-> FALSE, usable |-> TRUE, aic |-> a]
FitResults == {FitRaises, FitNoAic} \cup {FitAic(a) : a \in AicValues}

NoBest == [best_aic |-> Inf, best_params |-> 0]

\* one pass of the loop over param_combinations
\* the same with a raising candidate discarding the best fit so far
GridStepFatal(best, i, fit) ==
    IF fit.raises THEN [best_aic |-> Inf, best_params |-> 0]
    ELSE IF fit.usable /\ fit.aic < best.best_aic
         THEN [best_aic |-> fit.aic, best_params |-> i]
         ELSE best

\* the same with a later candidate of equal AIC replacing the earlier one
GridStepLast(best, i, fit) ==
    IF fit.raises THEN best
    ELSE IF fit.usable /\ fit.aic <= best.best_aic
         THEN [best_aic |-> fit.aic, best_params |-> i]
         ELSE best

GridStep(best, i, fit) ==
    IF fit.raises THEN best
    ELSE IF fit.usable /\ fit.aic < best.best_aic
         THEN [best_aic |-> fit.aic, best_params |-> i]
         ELSE best

RECURSIVE GridSearchFrom(_, _, _)
GridSearchFrom(fits, i, best) ==
    IF i > Len(ParamCombinations) THEN best
    ELSE GridSearchFrom(fits, i + 1, GridStep(best, i, fits[i]))

GridSearch(fits) == GridSearchFrom(fits, 1, NoBest)

\* mean_absolute_percentage_error of the holdout, in hundredths
MapeValues == {0, 25, 25000}

\* best_model.forecast on the holdout: raises, or yields the predictions the
\* MAPE is computed from
HoldoutResults ==
    {[raises |-> TRUE, mape |-> 0]} \cup {[raises |-> FALSE, mape |-> m] : m \in MapeValues}

\* accuracy = 100 - mean_absolute_percentage_error(...); 0.0 when the holdout
\* forecast raises
Accuracy(holdout) == IF holdout.raises THEN 0 ELSE 10000 - holdout.mape

ModelInfo(p, f, best, accuracy, rows) ==
    [kind |-> "model", product_id |-> p, facility_id |-> f,
     best_params |-> [seq |-> "tuple",
                      order |-> ParamCombinations[best.best_params].order,
                      seasonal_order |-> ParamCombinations[best.best_params].seasonal_order],
     aic |-> best.best_aic,
     accuracy_score |-> accuracy,
     trained_at |-> now,
     training_data_points |-> rows]

\* lines 117-205: the grid search, the holdout score, the descriptor and the
\* best-effort cache write
FitAndCache(p, f, r, env, eff) ==
    LET best == GridSearch(env.fits)
        eff2 == [eff EXCEPT !.fitted = TRUE]
    IN  IF best.best_params = 0
        THEN Raised("Could not fit SARIMAX model with any parameter combination", eff2)
        ELSE CacheAndReturn(ModelInfo(p, f, best, Accuracy(env.holdout), ResampledRows[r]),
                            ModelKey(p, f), CacheTtl, env.wraises, eff2)

\* if cached_model_str: try: return json.loads(...) except JSONDecodeError: pass
CachedModelUsable(cached) == cached # NoVal /\ JsonDecodes(cached)

\* train_sarimax_model(p, f, Dataset(r)) in an environment env: the keys whose
\* GET raises, what each candidate's fit and the holdout forecast do, whether
\* the SETEX raises
TrainSarimaxModel(p, f, r, env) ==
    LET key == ModelKey(p, f)
        cached == GetCacheValue(key, key \in env.rraises)
        eff == ReadFaults({key}, env.rraises)
    IN  IF CachedModelUsable(cached)
        THEN Returned(cached, "cache", cache, eff)
        ELSE IF PrepareRaises(Dataset(r))
        THEN Raised("KeyError: 'date'", eff)
        ELSE IF ResampledRows[r] < MinTrainRows
        THEN Raised("Insufficient data for training (minimum 30 days required)", eff)
        ELSE FitAndCache(p, f, r, env, eff)

----------------------------------------------------------------------------
(* generate_forecast *)

CurrentStock == 100000

\* What statsmodels does on the refit and the projection: the refit raises or
\* not; get_prediction raises or yields a mean and a standard error; the
\* fallback predict raises or yields a mean, with the residuals (their number
\* and standard deviation) and np.std of the historical quantities.  The mean
\* of day i of the projection is mean + (i - 1) * step.
LibRefitRaises ==
    [refit |-> "raise", native |-> "raise", predict |-> "raise",
     mean |-> 0, step |-> 0, se |-> 0, nresid |-> 0, rstd |-> 0, qstd |-> 0]
LibBothRaise == [LibRefitRaises EXCEPT !.refit = "ok"]
LibNative(m, s) ==
    [LibRefitRaises EXCEPT !.refit = "ok", !.native = "ok", !.predict = "ok",
                           !.mean = m, !.se = s]
LibFallback(m, n, rs, qs) ==
    [LibRefitRaises EXCEPT !.refit = "ok", !.predict = "ok",
                           !.mean = m, !.nresid = n, !.rstd = rs, !.qstd = qs]

\* no clamp, for comparison
ClampNone(x) == x

\* np.maximum(x, 0.0)
ClampNonNeg(x) == IF x < 0 THEN 0 ELSE x

\* predicted_mean[i - 1] / predict(...)[i - 1]
MeanAt(lib, i) == lib.mean + (i - 1) * lib.step

\* prediction_results.conf_int(): mean -/+ 1.96 standard errors
NativeInterval(lib, i) ==
    [mean |-> MeanAt(lib, i),
     lower |-> MeanAt(lib, i) - (Z95 * lib.se) \div 100,
     upper |-> MeanAt(lib, i) + (Z95 * lib.se) \div 100]

\* the residual deviation whether or not there are residuals, for comparison
ForecastStdOfResiduals(lib) == lib.rstd

\* np.std(residuals) if len(residuals) > 0 else np.std(df['quantity']) * 0.15
ForecastStd(lib) == IF lib.nresid > 0 THEN lib.rstd ELSE (lib.qstd * 15) \div 100

\* forecast_result -/+ 1.96 * forecast_std
FallbackInterval(lib, i) ==
    [mean |-> MeanAt(lib, i),
     lower |-> MeanAt(lib, i) - (Z95 * ForecastStd(lib)) \div 100,
     upper |-> MeanAt(lib, i) + (Z95 * ForecastStd(lib)) \div 100]

\* the entries of forecast_data['predictions'], after the clamp
Predictions(h, lib) ==
    [i \in 1..h |->
        LET iv == IF lib.native = "ok" THEN NativeInterval(lib, i)
                  ELSE FallbackInterval(lib, i)
        IN  [date |-> Today + i - 1,
             predicted_consumption |-> ClampNonNeg(iv.mean),
             lower_bound |-> ClampNonNeg(iv.lower),
             upper_bound |-> ClampNonNeg(iv.upper),
             confidence_level |-> ConfidenceLevel]]

RECURSIVE CumSum(_, _)
CumSum(preds, i) ==
    IF i = 0 THEN 0 ELSE preds[i].predicted_consumption + CumSum(preds, i - 1)

\* the same comparing each day's prediction, not the running sum, for comparison
CalculateDepletionDatePerDay(preds) ==
    LET hit == {i \in 1..Len(preds) : preds[i].predicted_consumption >= CurrentStock}
    IN  IF hit # {} THEN preds[SetMin(hit)].date ELSE 0

\* _calculate_depletion_date: the date of the first prediction at which the
\* running sum reaches current_stock; 0 stands for None
CalculateDepletionDate(preds) ==
    LET hit == {i \in 1..Len(preds) : CumSum(preds, i) >= CurrentStock}
    IN  IF hit # {} THEN preds[SetMin(hit)].date ELSE 0

\* the same reporting the first candidate of the grid, whatever descriptor
\* was read, for comparison
ForecastDataFirstCandidate(p, f, h, info, preds) ==
    [kind |-> "forecast", product_id |-> p, facility_id |-> f,
     forecast_horizon |-> h,
     generated_at |-> now,
     model_params |-> [seq |-> "list",
                       order |-> ParamCombinations[1].order,
                       seasonal_order |-> ParamCombinations[1].seasonal_order],
     predictions |-> preds,
     total_predicted_consumption |-> CumSum(preds, Len(preds)),
     depletion_date |-> CalculateDepletionDate(preds)]

\* forecast_data, lines 360-381
ForecastData(p, f, h, info, preds) ==
    [kind |-> "forecast", product_id |-> p, facility_id |-> f,
     forecast_horizon |-> h,
     generated_at |-> now,
     model_params |-> info.best_params,
     predictions |-> preds,
     total_predicted_consumption |-> CumSum(preds, Len(preds)),
     depletion_date |-> CalculateDepletionDate(preds)]

Wrapped(msg) == "Error generating forecast: " \o msg

\* lines 249-389: refit, projection with its fallback, clamp, payload and the
\* best-effort cache write
RefitAndProject(p, f, h, info, env, eff) ==
    LET lib == env.lib
        eff2 == [eff EXCEPT !.fitted = TRUE]
    IN  IF lib.refit = "raise"
        THEN Raised(Wrapped("Error fitting SARIMAX model"), eff2)
        ELSE IF lib.native = "raise" /\ lib.predict = "raise"
        THEN Raised(Wrapped("All forecast methods failed"), eff2)
        ELSE LET eff3 == [eff2 EXCEPT !.interval =
                            IF lib.native = "ok" THEN "native" ELSE "fallback"]
             IN  CacheAndReturn(ForecastData(p, f, h, info, Predictions(h, lib)),
                                ForecastKey(p, f, h), ForecastTtl, env.wraises, eff3)

\* a forecast lookup that never hits, for comparison
CachedForecastNeverUsable(cached) == FALSE

\* if cached_forecast_str: try: return json.loads(...) except JSONDecodeError: pass
CachedForecastUsable(cached) == cached # NoVal /\ JsonDecodes(cached)

\* no check for a missing descriptor, for comparison
ModelNeverMissing(cached) == FALSE

\* if not cached_model_str: raise ValueError("No trained model found ...")
ModelMissing(cached) == cached = NoVal

\* generate_forecast(p, f, h) in an environment env: the keys whose GET
\* raises, what the library does, whether the SETEX raises
GenerateForecast(p, f, h, env) ==
    LET fkey == ForecastKey(p, f, h)
        mkey == ModelKey(p, f)
        cachedF == GetCacheValue(fkey, fkey \in env.rraises)
        cachedM == GetCacheValue(mkey, mkey \in env.rraises)
        eff1 == ReadFaults({fkey}, env.rraises)
        eff2 == ReadFaults({fkey, mkey}, env.rraises)
        eff3 == [eff2 EXCEPT !.queried = TRUE]
    IN  IF CachedForecastUsable(cachedF)
        THEN Returned(cachedF, "cache", cache, eff1)
        ELSE IF ModelMissing(cachedM)
        THEN Raised("No trained model found", eff2)
        ELSE IF ~JsonDecodes(cachedM)
        THEN Raised("Invalid model info in cache", eff2)
        ELSE IF RecordCount[hist[<<p, f>>]] < MinForecastRecords
        THEN Raised(Wrapped("Insufficient historical data for forecasting"), eff3)
        ELSE RefitAndProject(p, f, h, cachedM, env, eff3)

----------------------------------------------------------------------------
(* calculate_optimal_reorder_point *)

CiToStd == 392
ServiceFactor == 165
ServiceLevel == 95

\* the integer nearest to n / d (d > 0), a tie going to the even one
RoundDiv(n, d) ==
    LET q == n \div d
        r == n % d
    IN  IF 2 * r < d THEN q
        ELSE IF 2 * r > d THEN q + 1
        ELSE IF q % 2 = 0 THEN q ELSE q + 1

\* cutting after 2 decimals, for comparison
Truncate2(n, d) == 10 * (n \div (10 * d))

\* round(n / d, 2) of a quantity in thousandths: a multiple of 10
Round2(n, d) == 10 * RoundDiv(n, 10 * d)

\* every prediction, for comparison
WholeForecast(preds, L) == preds

\* forecast['predictions'][:lead_time_days]
LeadTimeSlice(preds, L) == SubSeq(preds, 1, IF L < Len(preds) THEN L ELSE Len(preds))

\* the widths taken as lower_bound - upper_bound, for comparison
WidthSumReversed(preds, i) ==
    SumSeq([k \in 1..i |-> preds[k].lower_bound - preds[k].upper_bound])

\* sum of upper_bound - lower_bound over the first i predictions
RECURSIVE WidthSum(_, _)
WidthSum(preds, i) ==
    IF i = 0 THEN 0
    ELSE (preds[i].upper_bound - preds[i].lower_bound) + WidthSum(preds, i - 1)

\* the dict returned, from the forecast obtained; the sums are exact here:
\* safety_stock is 1.65 * (sum of widths) / 3.92
ReorderAnalysis(p, f, L, forecast) ==
    LET sl == LeadTimeSlice(forecast.predictions, L)
        lead_time_consumption == CumSum(sl, Len(sl))
        widths == WidthSum(sl, Len(sl))
    IN  [kind |-> "reorder", product_id |-> p, facility_id |-> f,
         reorder_point |->
            Round2(CiToStd * lead_time_consumption + ServiceFactor * widths, CiToStd),
         lead_time_consumption |-> Round2(lead_time_consumption, 1),
         safety_stock |-> Round2(ServiceFactor * widths, CiToStd),
         service_level |-> ServiceLevel,
         calculated_at |-> now]

\* calculate_optimal_reorder_point(p, f, L): an error of generate_forecast
\* propagates as it is
CalculateOptimalReorderPoint(p, f, L, env) ==
    LET res == GenerateForecast(p, f, 2 * L, env)
    IN  IF res.err # "" THEN res
        ELSE [res EXCEPT !.ret = ReorderAnalysis(p, f, L, res.ret)]

----------------------------------------------------------------------------
(* get_reorder_recommendations, for one row of the inventory table *)

DefaultCapacity == 1000000
DefaultCost == 1000

\* an Inventory row with the cost_per_unit of its product (cost in hundredths)
Item(stock, thr, cap, cost) ==
    [current_stock |-> stock, minimum_threshold |-> thr,
     maximum_capacity |-> cap, cost_per_unit |-> cost]

\* Inventory.current_stock <= Inventory.minimum_threshold * 1.5
LowStock(item) == 10 * item.current_stock <= 15 * item.minimum_threshold

\* stock_ratio <= tenths / 10, stock_ratio being current_stock /
\* minimum_threshold if minimum_threshold > 0 else 0
RatioAtMost(item, tenths) ==
    IF item.minimum_threshold > 0
    THEN 10 * item.current_stock <= tenths * item.minimum_threshold
    ELSE 0 <= tenths

\* the urgency when the reorder point was calculated
Urgency(item) ==
    IF RatioAtMost(item, 5) THEN "critical"
    ELSE IF RatioAtMost(item, 8) THEN "high"
    ELSE "medium"

\* the urgency of the except branch
BasicUrgency(item) ==
    IF item.current_stock <= item.minimum_threshold THEN "high" ELSE "medium"

\* convert_decimal_to_float(x) or default
OrDefault(x, default) == IF x = 0 THEN default ELSE x

\* the recommendation built from the reorder analysis
SarimaxRecommendation(p, f, item, analysis) ==
    LET room == OrDefault(item.maximum_capacity, DefaultCapacity) - item.current_stock
        twice == IF 2 * room >= 3 * analysis.reorder_point
                 THEN 2 * room ELSE 3 * analysis.reorder_point
    IN  [product_id |-> p, facility_id |-> f,
         current_stock |-> item.current_stock,
         reorder_point |-> analysis.reorder_point,
         recommended_quantity |-> Round2(twice, 2),
         estimated_cost |->
            Round2(twice * OrDefault(item.cost_per_unit, DefaultCost), 200),
         urgency |-> Urgency(item),
         justification |-> "SARIMAX"]

\* the recommendation of the except branch
BasicRecommendation(p, f, item) ==
    LET room == OrDefault(item.maximum_capacity, DefaultCapacity) - item.current_stock
    IN  [product_id |-> p, facility_id |-> f,
         current_stock |-> item.current_stock,
         reorder_point |-> item.minimum_threshold,
         recommended_quantity |-> Round2(room, 1),
         estimated_cost |->
            Round2(room * OrDefault(item.cost_per_unit, DefaultCost), 100),
         urgency |-> BasicUrgency(item),
         justification |-> "Basic"]

\* sorted(recommendations, key = critical 0, high 1, medium 2): a stable sort
SortByUrgency(recs) ==
    SelectSeq(recs, LAMBDA r : r.urgency = "critical")
    \o SelectSeq(recs, LAMBDA r : r.urgency = "high")
    \o SelectSeq(recs, LAMBDA r : r.urgency = "medium")

\* get_reorder_recommendations over a table holding the row item: the
\* reorder point is calculated with the default lead time; any exception
\* leads to the basic recommendation
GetReorderRecommendations(p, f, item, env) ==
    LET calc == CalculateOptimalReorderPoint(p, f, DefaultLeadTime, env)
        rec == IF calc.err = "" THEN SarimaxRecommendation(p, f, item, calc.ret)
               ELSE BasicRecommendation(p, f, item)
    IN  IF ~LowStock(item)
        THEN Returned([kind |-> "recommendations", list |-> << >>],
                      "none", cache, NoEffect)
        ELSE [calc EXCEPT !.err = "",
                          !.ret = [kind |-> "recommendations",
                                   list |-> SortByUrgency(<<rec>>)]]

----------------------------------------------------------------------------
(* generate_sustainability_metrics *)

\* a column value: a number (Decimal or float) or None
Num(v) == [none |-> FALSE, v |-> v]
None == [none |-> TRUE, v |-> 0]

\* the two columns of a ConsumptionData record the metrics read
MetricRec(q, e) == [quantity_consumed |-> q, employee_count |-> e]

\* float(x) for a Decimal, float(str(x) or 0) otherwise: float("None") raises
FloatRaises(x) == x.none

RECURSIVE SumQuantity(_)
SumQuantity(records) ==
    IF records = << >> THEN 0
    ELSE Head(records).quantity_consumed.v + SumQuantity(Tail(records))

RECURSIVE SumEmployees(_)
SumEmployees(records) ==
    IF records = << >> THEN 0
    ELSE Head(records).employee_count.v + SumEmployees(Tail(records))

\* the same dividing by one employee when there is none, for comparison
PerEmployeeOfOne(total, n, employees) ==
    IF employees > 0 THEN Round2(total * n, employees) ELSE Round2(total, 1)

\* total_consumption / avg_employees if avg_employees > 0 else 0.0, with
\* avg_employees = employees / n, to 2 decimals
PerEmployee(total, n, employees) ==
    IF employees > 0 THEN Round2(total * n, employees) ELSE 0

SavingsPercentage == 1500
SustainabilityScore == 7850

\* generate_sustainability_metrics(records)
GenerateSustainabilityMetrics(records) ==
    LET total == SumQuantity(records)
        employees == SumEmployees(records)
        Metrics(t, cpe, waste, carbon) ==
            [kind |-> "metrics", total_consumption |-> t,
             consumption_per_employee |-> cpe,
             waste_reduction_opportunity |-> waste,
             potential_savings_percentage |-> SavingsPercentage,
             carbon_footprint_kg |-> carbon,
             sustainability_score |-> SustainabilityScore,
             calculation_date |-> now]
    IN  IF records = << >>
        THEN Returned(Metrics(0, 0, 0, 0), "computed", cache, NoEffect)
        ELSE IF \E i \in 1..Len(records) :
                    \/ FloatRaises(records[i].quantity_consumed)
                    \/ FloatRaises(records[i].employee_count)
        THEN Raised("ValueError: could not convert string to float: 'None'", NoEffect)
        ELSE Returned(Metrics(Round2(total, 1),
                              PerEmployee(total, Len(records), employees),
                              Round2(15 * total, 100),
                              Round2(total, 10)),
                      "computed", cache, NoEffect)

----------------------------------------------------------------------------
(* Environments: the outcomes drawn for the library and the cache faults *)

OnlyFit(c, fit) == [i \in Candidates |-> IF i = c THEN fit ELSE FitRaises]

AllFits == [Candidates -> FitResults]
FewFits == {OnlyFit(1, FitRaises), [OnlyFit(3, FitAic(10)) EXCEPT ![2] = FitNoAic]}

FewHoldouts == {[raises |-> FALSE, mape |-> 25]}

MeanValues == {-300, 0, 300, 60000}
SeValues == {0, 400}
ResidCounts == {0, 30}
QtyStdValues == {0, 2000}

AllLibs ==
    {LibRefitRaises, LibBothRaise}
    \cup {LibNative(m, s) : m \in MeanValues, s \in SeValues}
    \cup {LibFallback(m, n, rs, qs) :
            m \in MeanValues, n \in ResidCounts, rs \in SeValues, qs \in QtyStdValues}
\* what the library, a function of its inputs, projects when it refits on
\* history r on day d: the future regressors are built from the forecast
\* dates (weekday, month), so the projection depends on the day it starts
LibOf(r, d) ==
    IF d % 7 = 3
    THEN [LibNative(60000 + r, 402) EXCEPT !.step = -50000]
    ELSE [LibNative(1004 + r, 402) EXCEPT !.step = 7]

\* projections that vary from day to day, with sub-cent means
ReorderLibs ==
    {LibBothRaise}
    \cup {[LibNative(m, s) EXCEPT !.step = d] :
            m \in {0, 1004, 60000}, s \in {0, 402}, d \in {-500, 0, 7}}
    \cup {[LibFallback(m, 0, 0, qs) EXCEPT !.step = d] :
            m \in {300, 1004}, qs \in {2000, 5370}, d \in {0, 7}}
FewLibs == {LibRefitRaises, LibBothRaise, LibNative(300, 400), LibFallback(60000, 0, 0, 2000)}

\* rows of the inventory table
InventoryRows ==
    {Item(s, t, c, 250) :
        s \in {0, 4000, 5000, 8000, 9000, 10000, 14000, 20000},
        t \in {0, 10000}, c \in {0, 50000}}

\* record sets handed to the metrics
MaxMetricRecords == 2
MetricRecs ==
    {MetricRec(q, e) : q \in {Num(0), Num(1234), None},
                       e \in {Num(0), Num(5), Num(-5), None}}
MetricRecordSets == UNION {[1..n -> MetricRecs] : n \in 0..MaxMetricRecords}

\* record sets handed to prepare_time_series_data: any order, several
\* records on a day, days without a record, events or none
MaxPrepareRecords == 3
PrepareRec(d, q, e) ==
    [consumption_date |-> d, quantity_consumed |-> q, employee_count |-> 5,
     special_events |-> e]
PrepareRecs ==
    {PrepareRec(1, 7000, FALSE), PrepareRec(1, 3000, TRUE),
     PrepareRec(3, 7000, FALSE), PrepareRec(3, 0, TRUE), PrepareRec(4, 3000, FALSE)}
PrepareRecordSets == UNION {[1..n -> PrepareRecs] : n \in 0..MaxPrepareRecords}

\* identifiers a request may carry: product_id and facility_id are free-form
\* strings, with or without a colon
IdStrings == {"a", "a:b", "b:c", "c"}

\* faulty: whether the cache may raise
TrainEnvs(p, f, Fits, Holdouts, faulty) ==
    [rraises : IF faulty THEN SUBSET {ModelKey(p, f)} ELSE {{}},
     fits : Fits, holdout : Holdouts,
     wraises : IF faulty THEN BOOLEAN ELSE {FALSE}]

ForecastEnvs(p, f, h, Libs, faulty) ==
    [rraises : IF faulty THEN SUBSET {ForecastKey(p, f, h), ModelKey(p, f)} ELSE {{}},
     lib : Libs,
     wraises : IF faulty THEN BOOLEAN ELSE {FALSE}]

\* the same environment with a healthy cache / with a SETEX that succeeds
Healthy(env) == [env EXCEPT !.rraises = {}, !.wraises = FALSE]
Writable(env) == [env EXCEPT !.wraises = FALSE]

\* the same environment in which the keys holding an undecodable payload read
\* as None, as a key that is not set does
AsAbsent(env, keys) ==
    [env EXCEPT !.rraises = @ \cup {k \in keys : RedisGet(k) = Garbage}]

----------------------------------------------------------------------------
(* The state machine *)

NoPrior ==
    [some |-> FALSE, ret |-> NoVal, at |-> 0, made_at |-> 0, stored |-> FALSE, recs |-> 0]

\* The record of a call: its arguments, its outcome (res, without the cache),
\* how many candidates gave a usable fit, what is remembered of the key,
\* and how the outcome compares with the same call under no cache fault
\* (healthy_ok), under a SETEX that succeeds (as_written) and with the
\* undecodable payloads it read not set at all (as_absent).
Call(op, p, f, h, r, res, nfit, before, healthy, written, absent) ==
    [op |-> op, p |-> p, f |-> f, h |-> h, recs |-> r,
     err |-> res.err, ret |-> res.ret, src |-> res.src, eff |-> res.eff,
     nfit |-> nfit, before |-> before, used |-> NoVal, arg |-> NoVal,
     healthy_ok |-> healthy.err = "",
     as_written |-> res.err = written.err /\ res.ret = written.ret,
     as_absent |-> res.err = absent.err /\ res.ret = absent.ret]

NoCall ==
    [op |-> "none", p |-> "", f |-> "", h |-> 0, recs |-> 0,
     err |-> "", ret |-> NoVal, src |-> "none", eff |-> NoEffect,
     nfit |-> 0, before |-> NoPrior, used |-> NoVal, arg |-> NoVal,
     healthy_ok |-> TRUE, as_written |-> TRUE, as_absent |-> TRUE]

\* the workers that may be inside a call at the same time
Procs == {1, 2}

\* the locals of a call: where it is, its arguments, the descriptor a
\* forecast read, the value computed, the outcome, and the rank and time of
\* its SETEX among the writes (0: none)
Idle ==
    [pc |-> "idle", op |-> "none", p |-> "", f |-> "", h |-> 0, recs |-> 0,
     cached |-> NoVal, value |-> NoVal, err |-> "", ret |-> NoVal, src |-> "none",
     worder |-> 0, wtime |-> 0]

Init ==
    /\ now = 0
    /\ cache = [k \in Keys |-> Absent]
    /\ hist = [pr \in Pairs |-> 1]
    /\ last = NoCall
    /\ prior = [k \in Keys |-> NoPrior]
    /\ inflight = [i \in Procs |-> Idle]

UsableFits(fits) == Cardinality({i \in Candidates : ~fits[i].raises /\ fits[i].usable})

\* a call to train_sarimax_model(p, f, Dataset(r)): the caller supplies the
\* records; arg holds what the candidates' fits gave, when they were run
Train(p, f, Recs, Envs) ==
    \E r \in Recs, env \in Envs :
        LET res == TrainSarimaxModel(p, f, r, env)
        IN  /\ cache' = res.cache
            /\ last' = [Call("train", p, f, 0, r, res,
                             IF res.eff.fitted THEN UsableFits(env.fits) ELSE 0,
                             prior[ModelKey(p, f)],
                             TrainSarimaxModel(p, f, r, Healthy(env)),
                             TrainSarimaxModel(p, f, r, Writable(env)),
                             TrainSarimaxModel(p, f, r, AsAbsent(env, {ModelKey(p, f)})))
                         EXCEPT !.arg = IF res.eff.fitted THEN [fits |-> env.fits]
                                        ELSE NoVal]
            /\ UNCHANGED <<now, hist, inflight>>

\* a call to generate_forecast; arg holds what the library did, when the
\* model was refitted
Forecast(p, f, h, Envs) ==
    \E env \in Envs :
        LET res == GenerateForecast(p, f, h, env)
        IN  /\ cache' = res.cache
            /\ last' = [Call("forecast", p, f, h, hist[<<p, f>>], res, 0,
                             prior[ForecastKey(p, f, h)],
                             GenerateForecast(p, f, h, Healthy(env)),
                             GenerateForecast(p, f, h, Writable(env)),
                             GenerateForecast(p, f, h,
                                 AsAbsent(env, {ForecastKey(p, f, h), ModelKey(p, f)})))
                         EXCEPT !.arg = IF res.eff.fitted THEN [lib |-> env.lib]
                                        ELSE NoVal]
            /\ UNCHANGED <<now, hist, inflight>>

\* a call to calculate_optimal_reorder_point; used is the forecast it obtained
Reorder(p, f, L, Envs) ==
    \E env \in Envs :
        LET fres == GenerateForecast(p, f, 2 * L, env)
            res == CalculateOptimalReorderPoint(p, f, L, env)
            keys == {ForecastKey(p, f, 2 * L), ModelKey(p, f)}
        IN  /\ cache' = res.cache
            /\ last' = [Call("reorder", p, f, L, hist[<<p, f>>], res, 0,
                              prior[ForecastKey(p, f, 2 * L)],
                              CalculateOptimalReorderPoint(p, f, L, Healthy(env)),
                              CalculateOptimalReorderPoint(p, f, L, Writable(env)),
                              CalculateOptimalReorderPoint(p, f, L, AsAbsent(env, keys)))
                         EXCEPT !.used = fres.ret]
            /\ UNCHANGED <<now, hist, inflight>>

\* a call to get_reorder_recommendations; used is the reorder analysis it
\* obtained (none when the calculation raised), arg the inventory row
Recommend(p, f, Items, Envs) ==
    \E item \in Items, env \in Envs :
        LET calc == CalculateOptimalReorderPoint(p, f, DefaultLeadTime, env)
            res == GetReorderRecommendations(p, f, item, env)
            keys == {ForecastKey(p, f, 2 * DefaultLeadTime), ModelKey(p, f)}
        IN  /\ cache' = res.cache
            /\ last' = [Call("recommend", p, f, DefaultLeadTime, hist[<<p, f>>], res, 0,
                              prior[ForecastKey(p, f, 2 * DefaultLeadTime)],
                              GetReorderRecommendations(p, f, item, Healthy(env)),
                              GetReorderRecommendations(p, f, item, Writable(env)),
                              GetReorderRecommendations(p, f, item, AsAbsent(env, keys)))
                         EXCEPT !.used = IF LowStock(item) THEN calc.ret ELSE NoVal,
                                !.arg = item]
            /\ UNCHANGED <<now, hist, inflight>>

\* a call to generate_sustainability_metrics; arg holds the records passed
SustainabilityMetrics(RecordSets) ==
    \E records \in RecordSets :
        LET res == GenerateSustainabilityMetrics(records)
        IN  /\ last' = [Call("metrics", "", "", 0, 0, res, 0, NoPrior, res, res, res)
                         EXCEPT !.arg = [records |-> records]]
            /\ UNCHANGED <<now, cache, hist, prior, inflight>>

\* a call to prepare_time_series_data; arg holds the records passed
Prepare(RecordSets) ==
    \E records \in RecordSets :
        LET res == IF PrepareRaises(records) THEN Raised("KeyError: 'date'", NoEffect)
                   ELSE Returned([kind |-> "frame",
                                  rows |-> PrepareTimeSeriesData(records)],
                                 "computed", cache, NoEffect)
        IN  /\ last' = [Call("prepare", "", "", 0, 0, res, 0, NoPrior, res, res, res)
                         EXCEPT !.arg = [records |-> records]]
            /\ UNCHANGED <<now, cache, hist, prior, inflight>>

\* the keys built for two requests; arg holds the requests and their keys
BuildKeys(Ids, Hs) ==
    \E p1 \in Ids, f1 \in Ids, h1 \in Hs, p2 \in Ids, f2 \in Ids, h2 \in Hs :
        /\ last' = [NoCall EXCEPT
                        !.op = "keys",
                        !.arg = [a |-> <<p1, f1, h1>>, b |-> <<p2, f2, h2>>,
                                 model_a |-> ModelKey(p1, f1),
                                 model_b |-> ModelKey(p2, f2),
                                 forecast_a |-> ForecastKey(p1, f1, h1),
                                 forecast_b |-> ForecastKey(p2, f2, h2)]]
        /\ UNCHANGED <<now, cache, hist, prior, inflight>>

\* trained_at / generated_at of a payload
MadeAt(v) == IF v.kind = "model" THEN v.trained_at ELSE v.generated_at

\* keep, for the key, a value v that the call that has just returned handed
\* back or obtained, whether the cache holds it, and the history at the call
Keep(key, v) ==
    prior' = IF last'.err # "" THEN prior
             ELSE [prior EXCEPT ![key] =
                     [some |-> TRUE, ret |-> v, at |-> now,
                      made_at |-> MadeAt(v),
                      stored |-> last'.src = "cache" \/ key \in last'.eff.wrote,
                      recs |-> last'.recs]]

\* what train or forecast returned
Remember(key) == Keep(key, last'.ret)

\* the descriptor train returned, when that call trained it
RememberTrained(key) ==
    IF last'.src = "computed" THEN Keep(key, last'.ret) ELSE prior' = prior

\* the forecast a reorder-point calculation obtained
RememberUsed(key) == Keep(key, last'.used)

\* Redis drops the keys whose TTL has elapsed
Expire(c, t) ==
    [k \in Keys |-> IF c[k].val # NoVal /\ t >= c[k].exp THEN Absent ELSE c[k]]

\* time passes
Tick ==
    /\ now + TickSeconds <= MaxTicks * TickSeconds
    /\ now' = now + TickSeconds
    /\ cache' = Expire(cache, now')
    /\ last' = NoCall
    /\ UNCHANGED <<hist, prior, inflight>>

\* new consumption records are stored for a pair
DbInsert(p, f, Sets) ==
    \E r \in Sets :
        /\ r # hist[<<p, f>>]
        /\ Extends[hist[<<p, f>>], r]
        /\ hist' = [hist EXCEPT ![<<p, f>>] = r]
        /\ last' = NoCall
        /\ UNCHANGED <<now, cache, prior, inflight>>

\* a stored payload is damaged: what is read back cannot be decoded
Corrupt(Ks) ==
    \E k \in Ks :
        /\ RedisGet(k) \notin {NoVal, Garbage}
        /\ cache' = [cache EXCEPT ![k].val = Garbage]
        /\ last' = NoCall
        /\ UNCHANGED <<now, hist, prior, inflight>>

----------------------------------------------------------------------------
(* Concurrent calls: every request builds its own service object on the one
   Redis at localhost:6379, which the server processes share, so a call is a
   sequence of steps between which a call of another process may run: the
   GET of its own key, for forecast the GET of the descriptor, the
   computation, the SETEX. *)

\* the key a call reads first and writes last, and the TTL it writes with
OwnKey(loc) ==
    IF loc.op = "train" THEN ModelKey(loc.p, loc.f) ELSE ForecastKey(loc.p, loc.f, loc.h)
OwnTtl(loc) == IF loc.op = "train" THEN CacheTtl ELSE ForecastTtl

Fails(loc, msg) == [loc EXCEPT !.pc = "done", !.err = msg]

\* a worker enters train_sarimax_model or generate_forecast
PStart(i, op, p, f, h, r) ==
    /\ inflight[i].pc = "idle"
    /\ inflight' = [inflight EXCEPT ![i] =
            [Idle EXCEPT !.pc = "read", !.op = op, !.p = p, !.f = f,
                         !.h = IF op = "train" THEN 0 ELSE h,
                         !.recs = IF op = "train" THEN r ELSE 0]]
    /\ UNCHANGED <<now, cache, hist, last, prior>>

\* lines 105-110 / 212-217: the GET of the call's own key
PRead(i) ==
    LET loc == inflight[i]
        c == GetCacheValue(OwnKey(loc), FALSE)
        hit == IF loc.op = "train" THEN CachedModelUsable(c) ELSE CachedForecastUsable(c)
    IN  /\ loc.pc = "read"
        /\ inflight' = [inflight EXCEPT ![i] =
                IF hit THEN [loc EXCEPT !.pc = "done", !.ret = c, !.src = "cache"]
                ELSE [loc EXCEPT !.pc = IF loc.op = "train" THEN "compute" ELSE "readmodel"]]
        /\ UNCHANGED <<now, cache, hist, last, prior>>

\* lines 220-230: the GET of the descriptor by a forecast
PReadModel(i) ==
    LET loc == inflight[i]
        m == GetCacheValue(ModelKey(loc.p, loc.f), FALSE)
    IN  /\ loc.pc = "readmodel"
        /\ inflight' = [inflight EXCEPT ![i] =
                IF ModelMissing(m) THEN Fails(loc, "No trained model found")
                ELSE IF ~JsonDecodes(m) THEN Fails(loc, "Invalid model info in cache")
                ELSE [loc EXCEPT !.pc = "compute", !.cached = m]]
        /\ UNCHANGED <<now, cache, hist, last, prior>>

\* lines 112-197 / 232-381: everything between the reads and the SETEX; the
\* value is computed as the call does after a miss, the write left out
PCompute(i, Fits, Holdouts, Libs) ==
    LET loc == inflight[i]
        mkey == ModelKey(loc.p, loc.f)
    IN  /\ loc.pc = "compute"
        /\ \E fits \in Fits, holdout \in Holdouts, lib \in Libs :
            LET res ==
                    IF loc.op = "train"
                    THEN TrainSarimaxModel(loc.p, loc.f, loc.recs,
                            [rraises |-> {mkey}, fits |-> fits, holdout |-> holdout,
                             wraises |-> TRUE])
                    ELSE IF RecordCount[hist[<<loc.p, loc.f>>]] < MinForecastRecords
                    THEN Raised(Wrapped("Insufficient historical data for forecasting"),
                                NoEffect)
                    ELSE RefitAndProject(loc.p, loc.f, loc.h, loc.cached,
                            [rraises |-> {}, lib |-> lib, wraises |-> TRUE], NoEffect)
            IN  inflight' = [inflight EXCEPT ![i] =
                    IF res.err # "" THEN Fails(loc, res.err)
                    ELSE [loc EXCEPT !.pc = "write", !.value = res.ret]]
        /\ UNCHANGED <<now, cache, hist, last, prior>>

\* lines 199-205 / 383-389: the best-effort SETEX, then the return
PWrite(i) ==
    LET loc == inflight[i]
        key == OwnKey(loc)
    IN  /\ loc.pc = "write"
        /\ \E wraises \in BOOLEAN :
            LET res == CacheAndReturn(loc.value, key, OwnTtl(loc), wraises, NoEffect)
            IN  /\ cache' = res.cache
                /\ inflight' = [inflight EXCEPT ![i] =
                        [loc EXCEPT !.pc = "done", !.ret = res.ret, !.src = res.src,
                            !.worder = IF wraises THEN 0
                                       ELSE 1 + Cardinality({j \in Procs :
                                                    inflight[j].worder > 0}),
                            !.wtime = now]]
        /\ UNCHANGED <<now, hist, last, prior>>

\* train, forecast, history growth and time, the cache raising at will
Next ==
    \/ \E p \in Products, f \in Facilities :
            /\ Train(p, f, {0, 1, 2, 4}, TrainEnvs(p, f, FewFits, FewHoldouts, TRUE))
            /\ UNCHANGED prior
    \/ \E p \in Products, f \in Facilities :
            /\ Forecast(p, f, 2, ForecastEnvs(p, f, 2, FewLibs, TRUE))
            /\ UNCHANGED prior
    \/ \E p \in Products, f \in Facilities : DbInsert(p, f, {2, 3, 4})
    \/ Tick

Spec == Init /\ [][Next]_vars

\* training under every outcome of the grid search and of the holdout
NextTrain ==
    \E p \in Products, f \in Facilities :
        /\ Train(p, f, {1, 4}, TrainEnvs(p, f, AllFits, HoldoutResults, FALSE))
        /\ UNCHANGED prior

SpecTrain == Init /\ [][NextTrain]_vars

\* forecasting under every outcome of the projection
NextForecast ==
    \/ \E p \in Products, f \in Facilities :
            /\ Train(p, f, {4}, TrainEnvs(p, f, {OnlyFit(1, FitAic(20))}, FewHoldouts, FALSE))
            /\ UNCHANGED prior
    \/ \E p \in Products, f \in Facilities, h \in Horizons :
            /\ Forecast(p, f, h, ForecastEnvs(p, f, h, AllLibs, FALSE))
            /\ UNCHANGED prior
    \/ \E p \in Products, f \in Facilities : DbInsert(p, f, {4})

SpecForecast == Init /\ [][NextForecast]_vars

\* repeated calls for the same key over time, each call remembered
NextRepeat ==
    \/ \E p \in Products, f \in Facilities :
            /\ Train(p, f, {4}, TrainEnvs(p, f, {OnlyFit(1, FitAic(20))}, FewHoldouts, TRUE))
            /\ Remember(ModelKey(p, f))
    \/ \E p \in Products, f \in Facilities :
            /\ Forecast(p, f, 2, ForecastEnvs(p, f, 2, {LibNative(300, 400), LibNative(6000, 0)}, TRUE))
            /\ Remember(ForecastKey(p, f, 2))
    \/ \E p \in Products, f \in Facilities : DbInsert(p, f, {4})
    \/ Tick

SpecRepeat == Init /\ [][NextRepeat]_vars

\* forecasts from a descriptor while the history grows after its training
NextNormalise ==
    \/ \E p \in Products, f \in Facilities :
            /\ Train(p, f, {1, 4, 6}, TrainEnvs(p, f, FewFits, FewHoldouts, FALSE))
            /\ RememberTrained(ModelKey(p, f))
    \/ \E p \in Products, f \in Facilities, h \in Horizons :
            /\ Forecast(p, f, h, ForecastEnvs(p, f, h, FewLibs, FALSE))
            /\ UNCHANGED prior
    \/ \E p \in Products, f \in Facilities : DbInsert(p, f, {4, 6})
    \/ Tick

SpecNormalise == Init /\ [][NextNormalise]_vars

\* reorder points for every lead time over projections of every shape
NextReorder ==
    \/ \E p \in Products, f \in Facilities :
            /\ Train(p, f, {4}, TrainEnvs(p, f, {OnlyFit(1, FitAic(20))}, FewHoldouts, FALSE))
            /\ UNCHANGED prior
    \/ \E p \in Products, f \in Facilities, L \in LeadTimes :
            /\ Reorder(p, f, L, ForecastEnvs(p, f, 2 * L, ReorderLibs, FALSE))
            /\ UNCHANGED prior
    \/ \E p \in Products, f \in Facilities : DbInsert(p, f, {4})

SpecReorder == Init /\ [][NextReorder]_vars

\* reorder points for every lead time from 0
NextReorderFromZero ==
    \/ \E p \in Products, f \in Facilities :
            /\ Train(p, f, {4}, TrainEnvs(p, f, {OnlyFit(1, FitAic(20))}, FewHoldouts, FALSE))
            /\ UNCHANGED prior
    \/ \E p \in Products, f \in Facilities, L \in LeadTimesFromZero :
            /\ Reorder(p, f, L,
                       ForecastEnvs(p, f, 2 * L,
                            {LibBothRaise, LibNative(0, 0), LibNative(-300, 402),
                             [LibNative(1004, 402) EXCEPT !.step = 7],
                             LibFallback(300, 0, 0, 2000)}, FALSE))
            /\ UNCHANGED prior
    \/ \E p \in Products, f \in Facilities : DbInsert(p, f, {4})

SpecReorderFromZero == Init /\ [][NextReorderFromZero]_vars

\* reorder points for several lead times over time, the library being a
\* function of the history and of the day
NextReorderDays ==
    \/ \E p \in Products, f \in Facilities :
            /\ Train(p, f, {4}, TrainEnvs(p, f, {OnlyFit(1, FitAic(20))}, FewHoldouts, FALSE))
            /\ UNCHANGED prior
    \/ \E p \in Products, f \in Facilities, L \in LeadTimes :
            /\ Reorder(p, f, L,
                       ForecastEnvs(p, f, 2 * L, {LibOf(hist[<<p, f>>], Today)}, FALSE))
            /\ RememberUsed(ForecastKey(p, f, 2 * L))
    \/ \E p \in Products, f \in Facilities : DbInsert(p, f, {4, 5})
    \/ Tick

SpecReorderDays == Init /\ [][NextReorderDays]_vars

\* reorder recommendations for one inventory row, trained or not
NextRecommend ==
    \/ \E p \in Products, f \in Facilities :
            /\ Train(p, f, {4}, TrainEnvs(p, f, {OnlyFit(1, FitAic(20))}, FewHoldouts, FALSE))
            /\ UNCHANGED prior
    \/ \E p \in Products, f \in Facilities :
            /\ Recommend(p, f, InventoryRows,
                         ForecastEnvs(p, f, 2 * DefaultLeadTime, FewLibs, FALSE))
            /\ UNCHANGED prior
    \/ \E p \in Products, f \in Facilities : DbInsert(p, f, {4})

SpecRecommend == Init /\ [][NextRecommend]_vars

\* sustainability metrics of every record set
NextMetrics == SustainabilityMetrics(MetricRecordSets)

SpecMetrics == Init /\ [][NextMetrics]_vars

\* the daily frame of every record set
NextPrepare == Prepare(PrepareRecordSets)

SpecPrepare == Init /\ [][NextPrepare]_vars

\* the keys of every two requests
NextKeys == BuildKeys(IdStrings, Horizons)

SpecKeys == Init /\ [][NextKeys]_vars

\* calls over a cache whose payloads may be damaged
NextCorrupt ==
    \/ \E p \in Products, f \in Facilities :
            /\ Train(p, f, {1, 4}, TrainEnvs(p, f, FewFits, FewHoldouts, FALSE))
            /\ UNCHANGED prior
    \/ \E p \in Products, f \in Facilities, h \in Horizons :
            /\ Forecast(p, f, h, ForecastEnvs(p, f, h, FewLibs, FALSE))
            /\ UNCHANGED prior
    \/ \E p \in Products, f \in Facilities : DbInsert(p, f, {4})
    \/ Corrupt(Keys)
    \/ Tick

SpecCorrupt == Init /\ [][NextCorrupt]_vars

\* two workers inside train / forecast for the same keys, step by step, time
\* passing in between; the descriptor is first trained by a call on its own
NextConcurrent ==
    \/ /\ \A i \in Procs : inflight[i].pc = "idle"
       /\ Train("p1", "f1", {4}, TrainEnvs("p1", "f1", {OnlyFit(1, FitAic(10))},
                                           FewHoldouts, FALSE))
       /\ UNCHANGED prior
    \/ /\ \A i \in Procs : inflight[i].pc = "idle"
       /\ DbInsert("p1", "f1", {4})
    \/ \E i \in Procs, op \in {"train", "forecast"} : PStart(i, op, "p1", "f1", 2, 4)
    \/ \E i \in Procs : PRead(i)
    \/ \E i \in Procs : PReadModel(i)
    \/ \E i \in Procs :
            PCompute(i, {OnlyFit(1, FitAic(10)), OnlyFit(2, FitAic(20))}, FewHoldouts,
                     {LibNative(300, 400), LibFallback(60000, 0, 0, 2000)})
    \/ \E i \in Procs : PWrite(i)
    \/ Tick

SpecConcurrent == Init /\ [][NextConcurrent]_vars

----------------------------------------------------------------------------
(* Properties *)

\* C1: every prediction of a returned forecast has
\* 0 <= lower_bound <= predicted_consumption <= upper_bound, whether the
\* interval came from get_prediction or from the Gaussian fallback.
C1_BoundsOrdered ==
    (last.op = "forecast" /\ last.err = "") =>
        \A i \in 1..Len(last.ret.predictions) :
            LET pr == last.ret.predictions[i]
            IN  /\ 0 <= pr.lower_bound
                /\ pr.lower_bound <= pr.predicted_consumption
                /\ pr.predicted_consumption <= pr.upper_bound

\* a fallback interval whose lower bound was negative before the clamp
C1_Witness ==
    /\ last.op = "forecast" /\ last.err = ""
    /\ last.eff.interval = "fallback"
    /\ \E i \in 1..Len(last.ret.predictions) :
            /\ last.ret.predictions[i].lower_bound = 0
            /\ last.ret.predictions[i].predicted_consumption > 0

C3_ExpiredNeverReturned ==
    /\ (last.op = "train" /\ last.err = "") =>
            /\ now - last.ret.trained_at < 60 * 60
            /\ last.src = "computed" =>
                    /\ last.eff.fitted
                    /\ last.ret.trained_at = now
                    /\ last.ret.training_data_points = ResampledRows[last.recs]
    /\ (last.op = "forecast" /\ last.err = "") =>
            /\ now - last.ret.generated_at < 30 * 60
            /\ last.src = "computed" =>
                    /\ last.eff.fitted
                    /\ last.ret.generated_at = now
    /\ \A k \in last.eff.wrote :
            cache[k].exp = now + (IF last.op = "train" THEN 60 * 60 ELSE 30 * 60)
    /\ \A k \in Keys : cache[k].val # NoVal => now < cache[k].exp

\* a forecast that was in the cache is regenerated once its 30 minutes are
\* over, with no cache fault involved
C3_Witness ==
    /\ last.op = "forecast" /\ last.err = ""
    /\ last.before.some /\ last.before.stored
    /\ now - last.before.made_at >= 30 * 60
    /\ last.eff.rfail = {}
    /\ last.src = "computed"
    /\ last.ret.generated_at = now

\* C4: a forecast call that misses the forecast cache and reads no model
\* descriptor raises the model-not-found error, and has not queried the
\* history, fitted a model or written to the cache.
C4_NoModelNoWork ==
    (/\ last.op = "forecast"
     /\ last.src # "cache"
     /\ GetCacheValue(ModelKey(last.p, last.f),
                      ModelKey(last.p, last.f) \in last.eff.rfail) = NoVal) =>
        /\ last.err = "No trained model found"
        /\ ~last.eff.queried
        /\ ~last.eff.fitted
        /\ last.eff.wrote = {}
        /\ ~last.eff.wfail

\* the error raised with no cache fault: nothing is cached for the pair
C4_Witness ==
    /\ last.op = "forecast"
    /\ last.err = "No trained model found"
    /\ last.eff.rfail = {}
    /\ cache[ModelKey(last.p, last.f)] = Absent
    /\ hist[<<last.p, last.f>>] = 4

C6_InsufficientIffShortResampled ==
    (/\ last.op = "forecast"
     /\ last.src # "cache"
     /\ last.err \notin {"No trained model found", "Invalid model info in cache"}) =>
        (last.err = Wrapped("Insufficient historical data for forecasting")
            <=> ResampledRows[last.recs] < 30)

\* C7 as stated: the accuracy_score of a trained descriptor lies in [0, 100].
C7_AccuracyInRange ==
    (last.op = "train" /\ last.err = "") =>
        /\ 0 <= last.ret.accuracy_score
        /\ last.ret.accuracy_score <= 100 * 100

\* C8: a grid search in which no candidate fits raises the model-fitting
\* error; one in which at least one candidate fits with a finite AIC does
\* not fail, whatever the other candidates did.
C8_GridSearchOutcome ==
    (last.op = "train" /\ last.eff.fitted) =>
        /\ last.nfit = 0 =>
                last.err = "Could not fit SARIMAX model with any parameter combination"
        /\ last.nfit >= 1 =>
                /\ last.err = ""
                /\ last.ret.aic < Inf

\* a single candidate fitted, the three others did not
C8_Witness ==
    /\ last.op = "train" /\ last.eff.fitted
    /\ last.nfit = 1
    /\ last.err = ""

\* C9: a call whose final cache write raises returns what it computed,
\* exactly what it returns when the write succeeds, and raises nothing.
C9_WriteFailureSwallowed ==
    last.eff.wfail =>
        /\ last.err = ""
        /\ last.ret # NoVal
        /\ last.as_written
        /\ last.eff.wrote = {}

\* a forecast returned although its SETEX raised
C9_Witness ==
    /\ last.op = "forecast"
    /\ last.eff.wfail
    /\ last.err = ""
    /\ last.ret.kind = "forecast"

\* C10 as stated: a train or forecast call that succeeds when the cache is
\* healthy succeeds when cache reads and writes raise.
C10_CacheFaultNeverFails ==
    (last.op \in {"train", "forecast"} /\ last.healthy_ok) => last.err = ""

\* C11 as stated: a call that reads a payload it cannot decode ends exactly
\* as the same call ends when that key is not set: same value returned or
\* same error raised.
C11_CorruptSameAsAbsent ==
    last.op \in {"train", "forecast"} => last.as_absent

\* C12: a reorder-point calculation with lead time L obtains the forecast of
\* horizon 2L and reports, from its first L predictions only, the sum of the
\* predicted means as lead_time_consumption and 1.65 * the sum of
\* (upper_bound - lower_bound) / 3.92 as safety_stock (both to 2 decimals).
C12_FirstLeadTimePredictions ==
    (last.op = "reorder" /\ last.err = "") =>
        LET preds == last.used.predictions
            L == last.h
            means == CumSum(preds, L)
            widths == WidthSum(preds, L)
        IN  /\ last.used.forecast_horizon = 2 * L
            /\ Len(preds) = 2 * L
            /\ last.ret.lead_time_consumption = Round2(means, 1)
            /\ last.ret.safety_stock = Round2(165 * widths, 392)

\* a lead time of 2 over a projection whose days 3 and 4 differ from days 1 and 2
C12_Witness ==
    /\ last.op = "reorder" /\ last.err = ""
    /\ last.h = 2
    /\ last.ret.safety_stock > 0
    /\ last.used.predictions[3].predicted_consumption
            # last.used.predictions[1].predicted_consumption
    /\ last.used.predictions[4].predicted_consumption
            # last.used.predictions[2].predicted_consumption

\* C13 as stated: the reported reorder_point is the sum of the reported
\* lead_time_consumption and the reported safety_stock, and service_level
\* is 95.
C13_ReportedFieldsAddUp ==
    (last.op = "reorder" /\ last.err = "") =>
        /\ last.ret.reorder_point
                = last.ret.lead_time_consumption + last.ret.safety_stock
        /\ last.ret.service_level = 95

\* C13: the reported reorder_point is the hundredth nearest to the unrounded
\* sum lead_time_consumption + safety_stock; it is within 0.01 of the sum of
\* the two reported (separately rounded) fields; service_level is 95.
C13_RoundedSum ==
    (last.op = "reorder" /\ last.err = "") =>
        LET L == last.h
            exact392 == 392 * CumSum(last.used.predictions, L)
                            + 165 * WidthSum(last.used.predictions, L)
            diff == last.ret.reorder_point
                        - (last.ret.lead_time_consumption + last.ret.safety_stock)
            off392 == 392 * last.ret.reorder_point - exact392
        IN  /\ last.ret.reorder_point % 10 = 0
            /\ 2 * off392 <= 10 * 392 /\ 2 * off392 >= -(10 * 392)
            /\ diff <= 10 /\ diff >= -10
            /\ last.ret.service_level = 95

\* the three reported fields do not add up
C13_Witness ==
    /\ last.op = "reorder" /\ last.err = ""
    /\ last.ret.reorder_point
            # last.ret.lead_time_consumption + last.ret.safety_stock

\* C14 as stated: of two reorder-point calculations made at the same time
\* for the same pair, history and descriptor parameters, the one with the
\* longer lead time reports a reorder_point at least as large, whenever the
\* forecasts they obtained were generated.
C14_MonotoneInLeadTime ==
    (last.op = "reorder" /\ last.err = "") =>
        \A L1 \in LeadTimes :
            LET o == prior[ForecastKey(last.p, last.f, 2 * L1)]
                rp1 == ReorderAnalysis(last.p, last.f, L1, o.ret).reorder_point
            IN  (/\ o.some
                 /\ o.at = now
                 /\ o.recs = last.recs
                 /\ o.ret.model_params = last.used.model_params) =>
                    /\ L1 <= last.h => rp1 <= last.ret.reorder_point
                    /\ L1 >= last.h => rp1 >= last.ret.reorder_point

\* C15 as stated: every recommendation returned for a row with a positive
\* minimum_threshold carries the urgency of ratio = current_stock /
\* minimum_threshold: critical when ratio <= 0.5, high when 0.5 < ratio <= 0.8,
\* medium otherwise, whether or not the reorder point could be calculated.
C15_UrgencyFromRatio ==
    (last.op = "recommend" /\ last.arg.minimum_threshold > 0) =>
        \A i \in 1..Len(last.ret.list) :
            last.ret.list[i].urgency =
                IF 10 * last.arg.current_stock <= 5 * last.arg.minimum_threshold
                THEN "critical"
                ELSE IF 10 * last.arg.current_stock <= 8 * last.arg.minimum_threshold
                THEN "high"
                ELSE "medium"

\* C16: the metrics of an empty record set are returned, not raised, with
\* total_consumption, consumption_per_employee, waste_reduction_opportunity
\* and carbon_footprint_kg all 0; the metrics of a non-empty record set whose
\* employee counts average 0 are returned with consumption_per_employee 0.
C16_MetricsGuarded ==
    last.op = "metrics" =>
        LET records == last.arg.records
        IN  /\ records = << >> =>
                    /\ last.err = ""
                    /\ last.ret.total_consumption = 0
                    /\ last.ret.consumption_per_employee = 0
                    /\ last.ret.waste_reduction_opportunity = 0
                    /\ last.ret.carbon_footprint_kg = 0
            /\ (/\ records # << >>
                /\ \A i \in 1..Len(records) :
                        /\ ~records[i].quantity_consumed.none
                        /\ ~records[i].employee_count.none
                /\ SumEmployees(records) = 0) =>
                    /\ last.err = ""
                    /\ last.ret.consumption_per_employee = 0

\* records with a positive consumption and no employee
C16_Witness ==
    /\ last.op = "metrics" /\ last.err = ""
    /\ last.arg.records # << >>
    /\ SumEmployees(last.arg.records) = 0
    /\ last.ret.total_consumption > 0

\* C17 as stated: train writes the descriptor under the key
\* "model:{product_id}:{facility_id}" and forecast writes under
\* "forecast:{product_id}:{facility_id}:{horizon_days}".
C17_KeyFormats ==
    /\ last.op = "train" =>
            \A k \in last.eff.wrote : k = "model:" \o last.p \o ":" \o last.f
    /\ last.op = "forecast" =>
            \A k \in last.eff.wrote :
                k = "forecast:" \o last.p \o ":" \o last.f \o ":" \o ToString(last.h)

\* the workers that have returned from a call of the same kind on the same
\* keys as worker i
Peers(i) ==
    {j \in Procs : /\ inflight[j].pc = "done"
                   /\ inflight[j].op = inflight[i].op
                   /\ OwnKey(inflight[j]) = OwnKey(inflight[i])}

\* C18: when two calls for the same key have run concurrently, in whatever
\* interleaving of their reads, computations and writes, each call whose
\* inputs allow a value returns one (the value it computed, or a complete
\* payload it found), and the cache holds exactly the complete value of the
\* call that wrote last, with that call's TTL, for as long as that TTL runs.
C18_LastWriterWins ==
    \A i \in Procs :
        LET loc == inflight[i]
            writers == {j \in Peers(i) : inflight[j].worder > 0}
        IN  (loc.pc = "done" /\ Peers(i) = Procs) =>
                /\ loc.op = "train" => loc.err = ""
                /\ loc.value # NoVal => loc.err = "" /\ loc.ret = loc.value
                /\ loc.err = "" => loc.ret # NoVal /\ JsonDecodes(loc.ret)
                /\ \A w \in writers :
                        (/\ \A j \in writers : inflight[j].worder <= inflight[w].worder
                         /\ now < inflight[w].wtime + OwnTtl(loc))
                        => cache[OwnKey(loc)] =
                                [val |-> JsonRoundTrip(inflight[w].value),
                                 exp |-> inflight[w].wtime + OwnTtl(loc)]

\* both forecasts missed, both computed, both wrote, and what they wrote differs
C18_Witness ==
    /\ \A i \in Procs :
            /\ inflight[i].pc = "done"
            /\ inflight[i].op = "forecast"
            /\ inflight[i].worder > 0
    /\ inflight[1].value # inflight[2].value
    /\ now < inflight[1].wtime + ForecastTtl
    /\ now < inflight[2].wtime + ForecastTtl

\* the exception class a caller catches: every failure of train and
\* forecast is raised as ValueError, but for the KeyError of a record set
\* without a date column
ExcType(err) == IF err = "KeyError: 'date'" THEN "KeyError" ELSE "ValueError"

\* the messages of the four kinds of failure
InsufficientDataMsgs ==
    {"Insufficient data for training (minimum 30 days required)",
     Wrapped("Insufficient historical data for forecasting")}
ModelFittingMsgs == {"Could not fit SARIMAX model with any parameter combination"}
ModelNotFoundMsgs == {"No trained model found"}
ForecastGenerationMsgs == {Wrapped("All forecast methods failed")}
FailureKinds ==
    {InsufficientDataMsgs, ModelFittingMsgs, ModelNotFoundMsgs, ForecastGenerationMsgs}

\* except Exception as e: raise ValueError(f"Error generating forecast: {e}"):
\* what the handler closing generate_forecast re-raises
ReportedAsForecastGeneration(err) ==
    err \in {Wrapped(m) : m \in {"Insufficient historical data for forecasting",
                                 "Error fitting SARIMAX model",
                                 "All forecast methods failed"}}

\* C19 as stated: a failure of one of the four kinds reaches the caller with
\* a type no failure of another kind has, and too short a history during a
\* forecast is not reported as a forecast-generation failure.
C19_TypedFailures ==
    \A K \in FailureKinds :
        last.err \in K =>
            /\ \A K2 \in FailureKinds \ {K} :
                    \A m \in K2 : ExcType(last.err) # ExcType(m)
            /\ K = InsufficientDataMsgs => ~ReportedAsForecastGeneration(last.err)

\* the candidates whose fit gave an AIC that can be compared
Comparable(fits) == {i \in Candidates : ~fits[i].raises /\ fits[i].usable}

\* C20: the (order, seasonal_order) of a descriptor that train has just
\* computed is that of the earliest candidate, in the order of the list,
\* among those whose fit gave the lowest AIC, and its aic is that lowest AIC.
C20_LowestAicEarliest ==
    (last.op = "train" /\ last.err = "" /\ last.src = "computed") =>
        LET fits == last.arg.fits
            lowest == SetMin({fits[i].aic : i \in Comparable(fits)})
            first == SetMin({i \in Comparable(fits) : fits[i].aic = lowest})
        IN  /\ last.ret.aic = lowest
            /\ last.ret.best_params.order = ParamCombinations[first].order
            /\ last.ret.best_params.seasonal_order =
                    ParamCombinations[first].seasonal_order

\* two later candidates tie on the lowest AIC, the first candidate being worse
C20_Witness ==
    /\ last.op = "train" /\ last.err = "" /\ last.src = "computed"
    /\ last.arg.fits[1] = FitAic(20)
    /\ last.arg.fits[2] = FitAic(10)
    /\ last.arg.fits[3] = FitAic(10)
    /\ last.ret.best_params.order = ParamCombinations[2].order
    /\ last.ret.best_params.seasonal_order = ParamCombinations[2].seasonal_order

\* C21: the depletion_date of a forecast is the date of the first
\* prediction, in order, at which the running sum of the predicted means
\* reaches the baseline of 100 units, and it is null exactly when the total
\* over the horizon is below the baseline.
C21_DepletionDate ==
    (last.op = "forecast" /\ last.err = "") =>
        LET preds == last.ret.predictions
            d == last.ret.depletion_date
        IN  /\ d = 0 <=> last.ret.total_predicted_consumption < CurrentStock
            /\ d # 0 =>
                \E i \in 1..Len(preds) :
                    /\ preds[i].date = d
                    /\ CumSum(preds, i) >= CurrentStock
                    /\ \A j \in 1..(i - 1) : CumSum(preds, j) < CurrentStock

\* the baseline is reached on the second day only, no single day reaching it
C21_Witness ==
    /\ last.op = "forecast" /\ last.err = "" /\ last.src = "computed"
    /\ Len(last.ret.predictions) = 2
    /\ last.ret.predictions[1].predicted_consumption < CurrentStock
    /\ last.ret.predictions[2].predicted_consumption < CurrentStock
    /\ last.ret.depletion_date = last.ret.predictions[2].date

\* the quantities of the records of day d, added one record after the other
RECURSIVE QuantityOn(_, _)
QuantityOn(records, d) ==
    IF records = << >> THEN 0
    ELSE (IF Head(records).consumption_date = d THEN Head(records).quantity_consumed
          ELSE 0) + QuantityOn(Tail(records), d)

\* C22: for a non-empty set of records, in any order, with several records
\* on a day and days without any, prepare_time_series_data returns one row
\* per calendar day from the earliest to the latest record date, in
\* increasing order without a gap; a day's quantity is the sum of its
\* records and its flag the OR of theirs; a day without a record has
\* quantity 0 and flag 0.
C22_DailyFrame ==
    (last.op = "prepare" /\ last.arg.records # << >>) =>
        LET records == last.arg.records
            rows == last.ret.rows
            dates == {records[k].consumption_date : k \in 1..Len(records)}
        IN  /\ last.err = ""
            /\ Len(rows) >= 1
            /\ \A d \in dates : rows[1].date <= d /\ d <= rows[Len(rows)].date
            /\ rows[1].date \in dates /\ rows[Len(rows)].date \in dates
            /\ \A i \in 1..(Len(rows) - 1) : rows[i + 1].date = rows[i].date + 1
            /\ \A i \in 1..Len(rows) :
                    /\ rows[i].quantity = QuantityOn(records, rows[i].date)
                    /\ rows[i].special_events =
                            IF \E k \in 1..Len(records) :
                                    /\ records[k].consumption_date = rows[i].date
                                    /\ records[k].special_events
                            THEN 1 ELSE 0
                    /\ rows[i].date \notin dates =>
                            rows[i].quantity = 0 /\ rows[i].special_events = 0

\* records out of order, two on one day (one with an event), and a gap
C22_Witness ==
    /\ last.op = "prepare" /\ last.err = ""
    /\ last.arg.records =
            <<PrepareRec(3, 7000, FALSE), PrepareRec(1, 3000, TRUE), PrepareRec(3, 0, TRUE)>>
    /\ Len(last.ret.rows) = 3
    /\ last.ret.rows[3].quantity = 7000
    /\ last.ret.rows[3].special_events = 1
    /\ last.ret.rows[2].quantity = 0

\* the bounds of every prediction are mean -/+ 1.96 * sigma (sigma in
\* thousandths), clamped at 0
BoundsFrom(preds, sigma) ==
    \A i \in 1..Len(preds) :
        LET half == (196 * sigma) \div 100
            lo == preds[i].predicted_consumption - half
        IN  /\ preds[i].predicted_consumption > 0 =>
                /\ preds[i].lower_bound = IF lo < 0 THEN 0 ELSE lo
                /\ preds[i].upper_bound = preds[i].predicted_consumption + half

\* C23: in a forecast that refits the model, the native interval is used when
\* get_prediction succeeds; only when it fails is mean -/+ 1.96 * sigma used,
\* sigma being the deviation of the in-sample residuals, or 0.15 times the
\* deviation of the historical quantities when there is no residual; "All
\* forecast methods failed" is raised only when both get_prediction and the
\* fallback fail.
C23_FallbackOrder ==
    (last.op = "forecast" /\ last.eff.fitted /\ last.arg.lib.refit = "ok") =>
        LET lib == last.arg.lib
        IN  /\ lib.native = "ok" =>
                /\ last.err = "" /\ last.eff.interval = "native"
                /\ BoundsFrom(last.ret.predictions, lib.se)
            /\ (lib.native = "raise" /\ lib.predict = "ok") =>
                /\ last.err = "" /\ last.eff.interval = "fallback"
                /\ BoundsFrom(last.ret.predictions,
                              IF lib.nresid > 0 THEN lib.rstd
                              ELSE (15 * lib.qstd) \div 100)
            /\ last.err = Wrapped("All forecast methods failed")
                    <=> (lib.native = "raise" /\ lib.predict = "raise")

\* the fallback with no residual: sigma is 0.15 * 2 = 0.3, the residual
\* deviation the library reports being another
C23_Witness ==
    /\ last.op = "forecast" /\ last.err = "" /\ last.eff.interval = "fallback"
    /\ last.arg.lib.nresid = 0 /\ last.arg.lib.qstd = 2000 /\ last.arg.lib.rstd = 400
    /\ last.ret.predictions[1].predicted_consumption = 60000
    /\ last.ret.predictions[1].upper_bound = 60588

\* C24 as stated: the employee-count mean and deviation that normalise the
\* exogenous rows of a forecast are those that normalised the exogenous
\* matrix when the descriptor it uses was trained, whatever was added to the
\* history in between.
C24_SameNormalisation ==
    LET trained == prior[ModelKey(last.p, last.f)]
    IN  (/\ last.op = "forecast" /\ last.eff.fitted /\ last.err = ""
         /\ trained.some
         /\ RedisGet(ModelKey(last.p, last.f)) = JsonRoundTrip(trained.ret))
        => EmployeeNorm[last.recs] = EmployeeNorm[trained.recs]

\* C25 as stated: a live forecast entry coexists with a live descriptor of
\* its pair, and generate_forecast returns no forecast for a pair whose
\* descriptor is absent or expired.
C25_ForecastImpliesModel ==
    /\ \A pr \in Pairs, h \in AllHorizons :
            RedisGet(ForecastKey(pr[1], pr[2], h)) # NoVal
                => RedisGet(ModelKey(pr[1], pr[2])) # NoVal
    /\ (last.op = "forecast" /\ last.err = "")
            => RedisGet(ModelKey(last.p, last.f)) # NoVal

\* C25, amended: a forecast that generate_forecast computes is computed from
\* a live, decodable descriptor of its pair; a forecast served from the
\* cache carries no such guarantee, its entry outliving the descriptor.
C25_ComputedImpliesModel ==
    (last.op = "forecast" /\ last.err = "" /\ last.src = "computed") =>
        /\ RedisGet(ModelKey(last.p, last.f)) # NoVal
        /\ JsonDecodes(RedisGet(ModelKey(last.p, last.f)))
        /\ last.ret.model_params = RedisGet(ModelKey(last.p, last.f)).best_params

\* a forecast computed late in the life of its descriptor
C25_Witness ==
    /\ last.op = "forecast" /\ last.err = "" /\ last.src = "computed"
    /\ now > 0
    /\ RedisGet(ModelKey(last.p, last.f)) # NoVal
    /\ cache[ModelKey(last.p, last.f)].exp < cache[ForecastKey(last.p, last.f, last.h)].exp

\* C26 as stated: the descriptor a successful train returns is derived from
\* the records passed to that call (its training_data_points is the number
\* of their resampled daily rows), and it replaces the descriptor cached for
\* the pair.
C26_TrainedFromRecordsPassed ==
    (last.op = "train" /\ last.err = "") =>
        /\ last.ret.training_data_points = ResampledRows[last.recs]
        /\ ~last.eff.wfail =>
                /\ ModelKey(last.p, last.f) \in last.eff.wrote
                /\ RedisGet(ModelKey(last.p, last.f)) = JsonRoundTrip(last.ret)

\* C27 as stated: two different (product_id, facility_id) pairs never give
\* the same model key, two different (product_id, facility_id, horizon)
\* triples never give the same forecast key, and no model key is a forecast
\* key, whatever the identifiers, a colon in them included.
C27_KeysInjective ==
    last.op = "keys" =>
        LET a == last.arg.a
            b == last.arg.b
        IN  /\ <<a[1], a[2]>> # <<b[1], b[2]>> => last.arg.model_a # last.arg.model_b
            /\ a # b => last.arg.forecast_a # last.arg.forecast_b
            /\ last.arg.model_a # last.arg.forecast_b

\* df.index[-1]: the last day of the daily frame of a dataset
LastDay(id) == SetMax(DatesOf(Dataset(id)))

\* C28 as stated: a freshly generated forecast for horizon h has exactly h
\* predictions, dated with the consecutive calendar days that follow the
\* last day of the daily series the model was refitted on, the i-th
\* prediction being the i-th step after that series.
C28_DatesFollowHistory ==
    (last.op = "forecast" /\ last.err = "" /\ last.src = "computed") =>
        /\ Len(last.ret.predictions) = last.h
        /\ \A i \in 1..Len(last.ret.predictions) :
                last.ret.predictions[i].date = LastDay(last.recs) + i

\* 0 <= lower_bound <= mean <= upper_bound in every prediction
Ordered(forecast) ==
    \A i \in 1..Len(forecast.predictions) :
        LET pr == forecast.predictions[i]
        IN  /\ 0 <= pr.lower_bound
            /\ pr.lower_bound <= pr.predicted_consumption
            /\ pr.predicted_consumption <= pr.upper_bound

\* C29: in a reorder analysis computed from a forecast whose predictions
\* satisfy 0 <= lower_bound <= mean <= upper_bound, safety_stock >= 0 and
\* reorder_point >= lead_time_consumption >= 0, for every lead time from 0.
C29_NonNegativeAnalysis ==
    (last.op = "reorder" /\ last.err = "" /\ Ordered(last.used)) =>
        /\ last.ret.safety_stock >= 0
        /\ last.ret.lead_time_consumption >= 0
        /\ last.ret.reorder_point >= last.ret.lead_time_consumption

\* an analysis over two days with intervals of positive width
C29_Witness ==
    /\ last.op = "reorder" /\ last.err = "" /\ Ordered(last.used)
    /\ last.h = 2
    /\ last.ret.safety_stock > 0
    /\ last.ret.lead_time_consumption > 0
    /\ last.ret.reorder_point > last.ret.lead_time_consumption

\* C30: a train or forecast call that fails leaves the cache as it was (no
\* key added or overwritten, no TTL refreshed); a call that succeeds changes
\* at most its own key, the model key of its pair for train and the forecast
\* key of its triple for forecast, and then to the value it returns with a
\* fresh TTL.
C30_FrameEffect ==
    [][last'.op \in {"train", "forecast"} =>
        LET own == IF last'.op = "train" THEN ModelKey(last'.p, last'.f)
                   ELSE ForecastKey(last'.p, last'.f, last'.h)
            ttl == IF last'.op = "train" THEN CacheTtl ELSE ForecastTtl
        IN  /\ last'.err # "" => cache' = cache
            /\ \A k \in Keys \ {own} : cache'[k] = cache[k]
            /\ cache'[own] # cache[own] =>
                    /\ last'.src = "computed"
                    /\ cache'[own] = [val |-> JsonRoundTrip(last'.ret), exp |-> now + ttl]
    ]_vars

\* a forecast has failed on the refit while the descriptor and a forecast for
\* another horizon are cached
C30_Witness ==
    /\ last.op = "forecast" /\ last.err # "" /\ last.eff.fitted
    /\ RedisGet(ModelKey(last.p, last.f)) # NoVal
    /\ \E h \in Horizons : RedisGet(ForecastKey(last.p, last.f, h)) # NoVal

====
